---------------------------- MODULE Spec2Model ----------------------------
(***************************************************************************)
(* Order-0 static arithmetic coder (src/code.py) with its compress and     *)
(* decompress drivers (src/compress.py, src/decompress.py).                *)
(*                                                                         *)
(* Python objects are records; a method is an operator from the object     *)
(* (and its arguments) to the object after the call, with a field err      *)
(* naming the exception the call raised ("" when it returned).  A symbol s *)
(* of the source is the position s + 1 of a TLA+ sequence.                 *)
(*                                                                         *)
(* TLC's integers are 32 bits wide, so the state width (32 in the drivers) *)
(* is the variable num_state_bits, drawn from 1 .. MaxStateBits, and the   *)
(* 256 byte values of the drivers are the ByteValues values 0 ..           *)
(* ByteValues - 1, with the end-of-stream symbol at index ByteValues.      *)
(***************************************************************************)
EXTENDS Integers, Sequences, FiniteSets, TLC

(* ------------------------------ bounds -------------------------------- *)

\* Largest state width explored (ArithmeticCoderBase.__init__'s numbits).
MaxStateBits == 4

\* Number of data symbols (the drivers' 256); the sentinel is symbol ByteValues.
ByteValues == 2

\* Longest input of the compressor.
MaxLen == 4

\* Largest total of the counts of a table or header that is not built from
\* an input (the sentinel's implicit 1 not counted in a header).
MaxSum == 3

\* Longest bit stream handed to a decoder that no encoder produced; the bits
\* after it are zeros up to the end of the last byte.
MaxBits == 4

\* Most bits a client of the bit streams writes before it closes the stream.
MaxWritten == 9

\* Calls of write, or of read, a client makes in one session when nothing
\* else ends it.
MaxCalls == 3

(* ------------------------- program constants -------------------------- *)

\* Bits per byte of BitOutputStream / BitInputStream.
ByteBits == 8

\* Width of one header count as written by write_frequencies.
WriteIntBits == 32

\* Width of one header count as read by read_frequencies.
ReadIntBits == 32

(* --------------------- Python's integer operators --------------------- *)

\* x << n
RECURSIVE shl(_, _)
shl(x, n) == IF n = 0 THEN x ELSE shl(2 * x, n - 1)

\* x >> n, for x >= 0
RECURSIVE shr(_, _)
shr(x, n) == IF n = 0 THEN x ELSE shr(x \div 2, n - 1)

\* x & y, for x, y >= 0
RECURSIVE band(_, _)
band(x, y) ==
    IF x = 0 \/ y = 0 THEN 0
    ELSE (x % 2) * (y % 2) + 2 * band(x \div 2, y \div 2)

\* x | y, for x, y >= 0
RECURSIVE bor(_, _)
bor(x, y) ==
    IF x = 0 THEN y
    ELSE IF y = 0 THEN x
    ELSE (IF x % 2 = 1 \/ y % 2 = 1 THEN 1 ELSE 0) + 2 * bor(x \div 2, y \div 2)

\* x ^ y, for x, y >= 0
RECURSIVE bxor(_, _)
bxor(x, y) ==
    IF x = 0 THEN y
    ELSE IF y = 0 THEN x
    ELSE ((x + y) % 2) + 2 * bxor(x \div 2, y \div 2)

\* x & ~y, for x, y >= 0 (~y has every bit set that y has clear)
RECURSIVE bandnot(_, _)
bandnot(x, y) ==
    IF x = 0 THEN 0
    ELSE (x % 2) * (1 - (y % 2)) + 2 * bandnot(x \div 2, y \div 2)

\* sum(list)
RECURSIVE sum(_)
sum(s) == IF s = <<>> THEN 0 ELSE s[1] + sum(Tail(s))

(* ------------------------ SimpleFrequencyTable ------------------------ *)
(* An object whose err is set is the object as the exception left it; the  *)
(* exception propagates, so the calls that would follow leave it alone.    *)

\* The value None of the field cumulative (a cumulative list is never empty).
None == <<>>

\* raise: the object as it is, with the exception
raise(obj, e) == [obj EXCEPT !.err = e]

\* What a call that returns a value gives: the value, the exception, and the
\* table after the call.
result(e, v, ft) == [err |-> e, val |-> v, ft |-> ft]

\* SimpleFrequencyTable.__init__ from a list of frequencies.
SimpleFrequencyTable(freqs) ==
    IF Len(freqs) < 1
    THEN [err |-> "ValueError: At least 1 symbol needed",
          frequencies |-> freqs, total |-> 0, cumulative |-> None]
    ELSE IF \E i \in 1..Len(freqs) : freqs[i] < 0
    THEN [err |-> "ValueError: Negative frequency",
          frequencies |-> freqs, total |-> 0, cumulative |-> None]
    ELSE [err |-> "", frequencies |-> freqs, total |-> sum(freqs),
          cumulative |-> None]

get_symbol_limit(ft) == Len(ft.frequencies)

\* SimpleFrequencyTable._check_symbol: TRUE when it returns, FALSE when it raises.
check_symbol(ft, symbol) == 0 <= symbol /\ symbol < Len(ft.frequencies)

\* SimpleFrequencyTable.get: [err, val, ft]
get(ft, symbol) ==
    IF ~check_symbol(ft, symbol)
    THEN result("ValueError: Symbol out of range", 0, ft)
    ELSE result("", ft.frequencies[symbol + 1], ft)

\* Mutant of set: the cumulative list is kept.
set_KeepCumulative(ft, symbol, freq) ==
    IF ~check_symbol(ft, symbol)
    THEN raise(ft, "ValueError: Symbol out of range")
    ELSE IF freq < 0
    THEN raise(ft, "ValueError: Negative frequency")
    ELSE [ft EXCEPT !.err = "",
                    !.frequencies[symbol + 1] = freq,
                    !.total = (ft.total - ft.frequencies[symbol + 1]) + freq]

\* SimpleFrequencyTable.set: the table after the call, with err
set(ft, symbol, freq) ==
    IF ~check_symbol(ft, symbol)
    THEN raise(ft, "ValueError: Symbol out of range")
    ELSE IF freq < 0
    THEN raise(ft, "ValueError: Negative frequency")
    ELSE IF ~(ft.total - ft.frequencies[symbol + 1] >= 0)
    THEN raise(ft, "AssertionError")
    ELSE [err |-> "",
          frequencies |-> [ft.frequencies EXCEPT ![symbol + 1] = freq],
          total |-> (ft.total - ft.frequencies[symbol + 1]) + freq,
          cumulative |-> None]

\* Mutant of increment: total is left as it was.
increment_TotalKept(ft, symbol) ==
    IF ft.err # "" THEN ft
    ELSE IF ~check_symbol(ft, symbol)
    THEN raise(ft, "ValueError: Symbol out of range")
    ELSE [err |-> "",
          frequencies |-> [ft.frequencies EXCEPT ![symbol + 1] = @ + 1],
          total |-> ft.total,
          cumulative |-> None]

\* SimpleFrequencyTable.increment: the table after the call, with err
increment(ft, symbol) ==
    IF ft.err # "" THEN ft
    ELSE IF ~check_symbol(ft, symbol)
    THEN raise(ft, "ValueError: Symbol out of range")
    ELSE [err |-> "",
          frequencies |-> [ft.frequencies EXCEPT ![symbol + 1] = @ + 1],
          total |-> ft.total + 1,
          cumulative |-> None]

get_total(ft) == ft.total

\* The list cumul that _init_cumulative builds after its first element 0:
\* the running sums of the frequencies.
RECURSIVE running_sums(_, _)
running_sums(freqs, acc) ==
    IF freqs = <<>> THEN <<>>
    ELSE <<acc + freqs[1]>> \o running_sums(Tail(freqs), acc + freqs[1])

\* The end of _init_cumulative: assert sum == self.total; self.cumulative = cumul
set_cumulative(ft, cumul) ==
    IF cumul[Len(cumul)] # ft.total
    THEN raise(ft, "AssertionError")
    ELSE [ft EXCEPT !.cumulative = cumul]

\* Mutant of init_cumulative: the running sums are kept in frequencies too.
init_cumulative_InPlace(ft) ==
    [set_cumulative(ft, <<0>> \o running_sums(ft.frequencies, 0))
        EXCEPT !.frequencies = running_sums(ft.frequencies, 0)]

\* SimpleFrequencyTable._init_cumulative: the table after the call, with err
init_cumulative(ft) ==
    set_cumulative(ft, <<0>> \o running_sums(ft.frequencies, 0))

\* if self.cumulative is None: self._init_cumulative()
with_cumulative(ft) ==
    IF ft.cumulative = None THEN init_cumulative(ft) ELSE ft

\* return self.cumulative[index], of the table t after with_cumulative
cumulative_at(t, index) ==
    IF t.err # "" THEN result(t.err, 0, t)
    ELSE result("", t.cumulative[index + 1], t)

\* SimpleFrequencyTable.get_low: [err, val, ft]
get_low(ft, symbol) ==
    IF ~check_symbol(ft, symbol)
    THEN result("ValueError: Symbol out of range", 0, ft)
    ELSE cumulative_at(with_cumulative(ft), symbol)

\* SimpleFrequencyTable.get_high: [err, val, ft]
get_high(ft, symbol) ==
    IF ~check_symbol(ft, symbol)
    THEN result("ValueError: Symbol out of range", 0, ft)
    ELSE cumulative_at(with_cumulative(ft), symbol + 1)

(* ------------------------ CheckedFrequencyTable ----------------------- *)

\* CheckedFrequencyTable.get_symbol_limit: [err, val, ft]
checked_get_symbol_limit(ft) ==
    IF get_symbol_limit(ft) <= 0
    THEN result("AssertionError: Non-positive symbol limit", 0, ft)
    ELSE result("", get_symbol_limit(ft), ft)

\* CheckedFrequencyTable.get_total: [err, val, ft]
checked_get_total(ft) ==
    IF get_total(ft) < 0
    THEN result("AssertionError: Negative total frequency", 0, ft)
    ELSE result("", get_total(ft), ft)

\* CheckedFrequencyTable._is_symbol_in_range, when get_symbol_limit returns
is_symbol_in_range(ft, symbol) == 0 <= symbol /\ symbol < get_symbol_limit(ft)

\* The test both get_low and get_high of CheckedFrequencyTable make on the low
\* and high of the table they wrap, and the one of the two they return.
checked_range(lo, hi, which, e) ==
    IF hi.err # "" THEN hi
    ELSE IF ~(0 <= lo.val /\ lo.val <= hi.val /\ hi.val <= get_total(hi.ft))
    THEN result(e, 0, hi.ft)
    ELSE result("", IF which = "low" THEN lo.val ELSE hi.val, hi.ft)

checked_high_of(lo, symbol, which, e) ==
    IF lo.err # "" THEN lo
    ELSE checked_range(lo, get_high(lo.ft, symbol), which, e)

\* CheckedFrequencyTable.get_low: [err, val, ft]
checked_get_low(ft, symbol) ==
    IF checked_get_symbol_limit(ft).err # "" THEN checked_get_symbol_limit(ft)
    ELSE IF ~is_symbol_in_range(ft, symbol)
    THEN \* the wrapped table raises, before the wrapper's own AssertionError
         get_low(ft, symbol)
    ELSE checked_high_of(get_low(ft, symbol), symbol, "low",
             "AssertionError: Symbol low cumulative frequency out of range")

\* CheckedFrequencyTable.get_high: [err, val, ft]
checked_get_high(ft, symbol) ==
    IF checked_get_symbol_limit(ft).err # "" THEN checked_get_symbol_limit(ft)
    ELSE IF ~is_symbol_in_range(ft, symbol)
    THEN get_high(ft, symbol)
    ELSE checked_high_of(get_low(ft, symbol), symbol, "high",
             "AssertionError: Symbol high cumulative frequency out of range")

(* --------------------------- BitOutputStream -------------------------- *)

\* BitOutputStream.__init__ over an open, empty file: output is the list of
\* the bytes written to the file so far.
BitOutputStream ==
    [err |-> "", output |-> <<>>, closed |-> FALSE,
     currentbyte |-> 0, numbitsfilled |-> 0]

\* The if of BitOutputStream.write: the byte is written when it is full.
flush_byte(s) ==
    IF s.numbitsfilled = ByteBits
    THEN IF s.closed
         THEN raise(s, "ValueError: I/O operation on closed file")
         ELSE [s EXCEPT !.output = Append(@, s.currentbyte),
                        !.currentbyte = 0, !.numbitsfilled = 0]
    ELSE s

\* BitOutputStream.write: the stream after the call, with err
BitOut_write(s, b) ==
    IF s.err # "" THEN s
    ELSE IF b \notin {0, 1}
    THEN raise(s, "ValueError: Argument must be 0 or 1")
    ELSE flush_byte([s EXCEPT !.currentbyte = bor(shl(@, 1), b),
                              !.numbitsfilled = @ + 1])

\* The loop of BitOutputStream.close: write(0) until the byte is complete.
RECURSIVE BitOut_pad(_)
BitOut_pad(s) ==
    IF s.err = "" /\ s.numbitsfilled # 0
    THEN BitOut_pad(BitOut_write(s, 0))
    ELSE s

\* self.output.close()
close_file(s) == IF s.err # "" THEN s ELSE [s EXCEPT !.closed = TRUE]

\* BitOutputStream.close: the stream after the call, with err
BitOut_close(s) == close_file(BitOut_pad(raise(s, "")))

(* --------------------------- BitInputStream --------------------------- *)

\* BitInputStream.__init__ over a file: input is the list of the bytes of the
\* file that have not been read yet.
BitInputStream(inp) ==
    [input |-> inp, currentbyte |-> 0, numbitsremaining |-> 0]

\* Mutant of next_bit: the bits of a byte are taken from the lowest one up.
next_bit_LsbFirst(s) ==
    [val |-> band(shr(s.currentbyte, ByteBits - s.numbitsremaining), 1),
     s   |-> [s EXCEPT !.numbitsremaining = @ - 1]]

\* The end of BitInputStream.read: [val, s]
next_bit(s) ==
    [val |-> band(shr(s.currentbyte, s.numbitsremaining - 1), 1),
     s   |-> [s EXCEPT !.numbitsremaining = @ - 1]]

\* BitInputStream.read: [val, s], val the bit or -1, s the stream after the call
BitIn_read(s) ==
    IF s.currentbyte = -1 THEN [val |-> -1, s |-> s]
    ELSE IF s.numbitsremaining = 0
    THEN IF Len(s.input) = 0
         THEN [val |-> -1, s |-> [s EXCEPT !.currentbyte = -1]]
         ELSE next_bit([input |-> Tail(s.input), currentbyte |-> Head(s.input),
                        numbitsremaining |-> ByteBits])
    ELSE next_bit(s)

\* What read_no_eof makes of the result of read: [err, val, s]
no_eof(r) ==
    IF r.val # -1 THEN [err |-> "", val |-> r.val, s |-> r.s]
    ELSE [err |-> "EOFError", val |-> -1, s |-> r.s]

\* BitInputStream.read_no_eof: [err, val, s]
BitIn_read_no_eof(s) == no_eof(BitIn_read(s))

(* ------------------------- ArithmeticCoderBase ------------------------ *)

\* The fields __init__ derives from full_range.  shift_turns and
\* underflow_turns are history: the turns of the first and of the second while
\* loop of update the coder has made so far; no field of the source.
coder_fields(numbits, full) ==
    [err |-> "",
     num_state_bits |-> numbits,
     full_range |-> full,
     half_range |-> shr(full, 1),
     quarter_range |-> shr(shr(full, 1), 1),
     minimum_range |-> shr(shr(full, 1), 1) + 2,
     maximum_total |-> shr(shr(full, 1), 1) + 2,
     state_mask |-> full - 1,
     low |-> 0,
     high |-> full - 1,
     shift_turns |-> 0,
     underflow_turns |-> 0]

\* ArithmeticCoderBase.__init__: the fields of the coder, with err
ArithmeticCoderBase(numbits) ==
    IF numbits < 1
    THEN [err |-> "ValueError: State size out of range"]
    ELSE coder_fields(numbits, shl(1, numbits))

\* for _ in range(self.num_underflow): self.output.write(bit ^ 1)
RECURSIVE Enc_write_repeat(_, _, _)
Enc_write_repeat(o, bit, n) ==
    IF n = 0 THEN o ELSE Enc_write_repeat(BitOut_write(o, bit), bit, n - 1)

\* Mutant of Enc_shifted: num_underflow is not reset.
Enc_shifted_KeepsPending(c, o) ==
    IF o.err # "" THEN [c EXCEPT !.err = o.err, !.output = o]
    ELSE [c EXCEPT !.output = o]

\* The end of ArithmeticEncoder.shift, o the bit stream after its writes.
Enc_shifted(c, o) ==
    IF o.err # "" THEN [c EXCEPT !.err = o.err, !.output = o]
    ELSE [c EXCEPT !.output = o, !.num_underflow = 0]

\* bit of ArithmeticEncoder.shift
top_bit(c) == shr(c.low, c.num_state_bits - 1)

\* Mutant of Enc_shift: the pending bits are written as copies of bit.
Enc_shift_SameBit(c) ==
    Enc_shifted(c, Enc_write_repeat(BitOut_write(c.output, top_bit(c)),
                                    top_bit(c), c.num_underflow))

\* ArithmeticEncoder.shift.  The encoder c carries its bit stream as c.output.
Enc_shift(c) ==
    Enc_shifted(c, Enc_write_repeat(BitOut_write(c.output, top_bit(c)),
                                    bxor(top_bit(c), 1), c.num_underflow))

\* ArithmeticEncoder.underflow
Enc_underflow(c) == [c EXCEPT !.num_underflow = @ + 1]

\* Mutant of eof_as_zero: the -1 of the end of the stream is made a 1.
eof_as_zero_AsOne(r) == [val |-> IF r.val = -1 THEN 1 ELSE r.val, s |-> r.s]

\* What read_code_bit makes of the result of read: [val, s]
eof_as_zero(r) == [val |-> IF r.val = -1 THEN 0 ELSE r.val, s |-> r.s]

\* ArithmeticDecoder.read_code_bit: [val, s]
Dec_read_code_bit(s) == eof_as_zero(BitIn_read(s))

\* Mutant of Dec_shifted: the shifted code is not masked.
Dec_shifted_NoMask(c, r) ==
    [c EXCEPT !.code = bor(shl(c.code, 1), r.val),
              !.input = r.s]

\* ArithmeticDecoder.shift's assignment, r the result of read_code_bit
Dec_shifted(c, r) ==
    [c EXCEPT !.code = bor(band(shl(c.code, 1), c.state_mask), r.val),
              !.input = r.s]

\* ArithmeticDecoder.shift.  The decoder c carries its bit stream as c.input.
Dec_shift(c) == Dec_shifted(c, Dec_read_code_bit(c.input))

\* Mutant of Dec_underflowed: the shifted code is masked with state_mask
\* instead of state_mask >> 1.
Dec_underflowed_FullMask(c, r) ==
    [c EXCEPT !.code = bor(bor(band(c.code, c.half_range),
                               band(shl(c.code, 1), c.state_mask)),
                           r.val),
              !.input = r.s]

\* ArithmeticDecoder.underflow's assignment, r the result of read_code_bit
Dec_underflowed(c, r) ==
    [c EXCEPT !.code = bor(bor(band(c.code, c.half_range),
                               band(shl(c.code, 1), shr(c.state_mask, 1))),
                           r.val),
              !.input = r.s]

\* ArithmeticDecoder.underflow
Dec_underflow(c) == Dec_underflowed(c, Dec_read_code_bit(c.input))

\* self.shift() and self.underflow(), dispatched on the class of self.
shift(c) == IF c.kind = "encoder" THEN Enc_shift(c) ELSE Dec_shift(c)

underflow(c) == IF c.kind = "encoder" THEN Enc_underflow(c) ELSE Dec_underflow(c)

\* The test of the first while loop of update.
top_bits_agree(c) == band(bxor(c.low, c.high), c.half_range) = 0

\* Mutant of shift_out: low and high are shifted on every second turn only.
shift_out_EverySecondTurn(c) ==
    IF c.err # "" THEN c
    ELSE IF c.shift_turns % 2 = 0 THEN [c EXCEPT !.shift_turns = @ + 1]
    ELSE [c EXCEPT !.low  = band(shl(c.low, 1), c.state_mask),
                   !.high = bor(band(shl(c.high, 1), c.state_mask), 1),
                   !.shift_turns = @ + 1]

\* The two assignments of the body of the first while loop, after self.shift().
shift_out(c) ==
    IF c.err # "" THEN c
    ELSE [c EXCEPT !.low  = band(shl(c.low, 1), c.state_mask),
                   !.high = bor(band(shl(c.high, 1), c.state_mask), 1),
                   !.shift_turns = @ + 1]

\* The first while loop of update.
RECURSIVE shift_loop(_)
shift_loop(c) ==
    IF c.err = "" /\ top_bits_agree(c) THEN shift_loop(shift_out(shift(c)))
    ELSE c

\* The test of the second while loop of update.
straddles(c) == band(bandnot(c.low, c.high), c.quarter_range) # 0

\* The two assignments of the body of the second while loop, after
\* self.underflow().
underflow_out(c) ==
    IF c.err # "" THEN c
    ELSE [c EXCEPT !.low  = bxor(shl(c.low, 1), c.half_range),
                   !.high = bor(bor(shl(bxor(c.high, c.half_range), 1),
                                    c.half_range), 1),
                   !.underflow_turns = @ + 1]

\* The second while loop of update.
RECURSIVE underflow_loop(_)
underflow_loop(c) ==
    IF c.err = "" /\ straddles(c)
    THEN underflow_loop(underflow_out(underflow(c)))
    ELSE c

\* newlow and newhigh of update
newlow(low, symlow, range, total) == low + (symlow * range) \div total

\* Mutant of newhigh: the upper end is not made inclusive.
newhigh_Exclusive(low, symhigh, range, total) ==
    low + (symhigh * range) \div total

newhigh(low, symhigh, range, total) == low + (symhigh * range) \div total - 1

\* Mutant of update_check: a symbol of zero frequency is not refused.
update_check_NoZero(c, total, symlow, symhigh) ==
    IF total > c.maximum_total
    THEN "ValueError: Cannot code symbol because total is too large"
    ELSE ""

\* Mutant of update_check: a total above maximum_total is not refused.
update_check_NoTotal(c, total, symlow, symhigh) ==
    IF symlow = symhigh THEN "ValueError: Symbol has zero frequency" ELSE ""

\* The two tests update makes of total, symlow and symhigh: the exception it
\* raises, "" when it raises none.
update_check(c, total, symlow, symhigh) ==
    IF symlow = symhigh THEN "ValueError: Symbol has zero frequency"
    ELSE IF total > c.maximum_total
    THEN "ValueError: Cannot code symbol because total is too large"
    ELSE ""

\* update from the tests of total, symlow and symhigh on: the coder, with err
\* (// raises ZeroDivisionError for a total of 0)
update_interval(c, total, symlow, symhigh) ==
    IF update_check(c, total, symlow, symhigh) # ""
    THEN raise(c, update_check(c, total, symlow, symhigh))
    ELSE IF total = 0 THEN raise(c, "ZeroDivisionError")
    ELSE underflow_loop(shift_loop(
             [c EXCEPT !.low  = newlow(c.low, symlow, c.high - c.low + 1, total),
                       !.high = newhigh(c.low, symhigh, c.high - c.low + 1, total)]))

\* update from symhigh = freqs.get_high(symbol) on: [c, ft]
update_symhigh(c, total, symlow, symhigh) ==
    IF symhigh.err # "" THEN [c |-> raise(c, symhigh.err), ft |-> symhigh.ft]
    ELSE [c  |-> update_interval(c, total.val, symlow.val, symhigh.val),
          ft |-> symhigh.ft]

\* update from symlow = freqs.get_low(symbol) on: [c, ft]
update_symlow(c, total, symlow, symbol) ==
    IF total.err # "" THEN [c |-> raise(c, total.err), ft |-> total.ft]
    ELSE IF symlow.err # "" THEN [c |-> raise(c, symlow.err), ft |-> symlow.ft]
    ELSE update_symhigh(c, total, symlow, checked_get_high(symlow.ft, symbol))

\* ArithmeticCoderBase.update: [c, ft], the coder (with err) and the table
\* (a CheckedFrequencyTable around ft) after the call
update(c, ft, symbol) ==
    IF c.low >= c.high \/ band(c.low, c.state_mask) # c.low
                       \/ band(c.high, c.state_mask) # c.high
    THEN [c |-> raise(c, "AssertionError: Low or high out of range"), ft |-> ft]
    ELSE IF ~(c.minimum_range <= c.high - c.low + 1
              /\ c.high - c.low + 1 <= c.full_range)
    THEN [c |-> raise(c, "AssertionError: Range out of range"), ft |-> ft]
    ELSE update_symlow(c, checked_get_total(ft), checked_get_low(ft, symbol),
                       symbol)

(* -------------------------- ArithmeticEncoder ------------------------- *)

\* ArithmeticEncoder.__init__: the encoder's own fields; its bit stream, an
\* object shared with the driver, is attached for the time of a call.
ArithmeticEncoder(numbits) ==
    IF numbits < 1 THEN ArithmeticCoderBase(numbits)
    ELSE [kind |-> "encoder", num_underflow |-> 0] @@ ArithmeticCoderBase(numbits)

\* An object with the stream it refers to, and without it again.
attach(c, field, stream) == (field :> stream) @@ c

detach(c, field) == [f \in DOMAIN c \ {field} |-> c[f]]

\* What a call of the encoder leaves: [c, ft, output]
Enc_result(r) ==
    [c |-> detach(r.c, "output"), ft |-> r.ft, output |-> raise(r.c.output, "")]

\* ArithmeticEncoder.write: [c, ft, output]
Enc_write(c, ft, output, symbol) ==
    Enc_result(update(attach(raise(c, ""), "output", output), ft, symbol))

\* Mutant of Enc_finish: the pending underflow bits are written after the 1.
Enc_finish_FlushPending(c, output) ==
    Enc_write_repeat(BitOut_write(raise(output, ""), 1), 0, c.num_underflow)

\* Mutant of Enc_finish: no bit is written.
Enc_finish_NoBit(c, output) == raise(output, "")

\* ArithmeticEncoder.finish: the bit stream after the call, with err
Enc_finish(c, output) == BitOut_write(raise(output, ""), 1)

(* -------------------------- ArithmeticDecoder ------------------------- *)

\* Mutant of Dec_fill_bit: code is not shifted before the bit is put in.
Dec_fill_bit_Unshifted(code, b) == [code |-> bor(code, b.val), s |-> b.s]

\* One turn of the for loop of ArithmeticDecoder.__init__, b the result of
\* read_code_bit: [code, s]
Dec_fill_bit(code, b) == [code |-> bor(shl(code, 1), b.val), s |-> b.s]

\* The for loop of ArithmeticDecoder.__init__: r = [code, s] holds self.code
\* and the bit stream.
RECURSIVE Dec_fill(_, _)
Dec_fill(r, n) ==
    IF n = 0 THEN r
    ELSE Dec_fill(Dec_fill_bit(r.code, Dec_read_code_bit(r.s)), n - 1)

\* The decoder and its bit stream once the loop has filled code: [c, input]
Dec_filled(base, r) ==
    [c |-> [kind |-> "decoder", code |-> r.code] @@ base, input |-> r.s]

\* ArithmeticDecoder.__init__: [c, input]
ArithmeticDecoder(numbits, input) ==
    IF numbits < 1 THEN [c |-> ArithmeticCoderBase(numbits), input |-> input]
    ELSE Dec_filled(ArithmeticCoderBase(numbits),
                    Dec_fill([code |-> 0, s |-> input], numbits))

\* The binary search of ArithmeticDecoder.read: [err, start, end, ft]
RECURSIVE Dec_search(_, _, _, _)

\* Mutant of Dec_search_step: the search goes down also when low == value.
Dec_search_step_GoesDownOnEqual(lo, value, start, end, middle) ==
    IF lo.err # ""
    THEN [err |-> lo.err, start |-> start, end |-> end, ft |-> lo.ft]
    ELSE IF lo.val >= value
    THEN Dec_search(lo.ft, value, start, middle)
    ELSE Dec_search(lo.ft, value, middle, end)

\* One turn of the binary search, lo = freqs.get_low(middle).
RECURSIVE Dec_search_step(_, _, _, _, _)
Dec_search_step(lo, value, start, end, middle) ==
    IF lo.err # ""
    THEN [err |-> lo.err, start |-> start, end |-> end, ft |-> lo.ft]
    ELSE IF lo.val > value
    THEN Dec_search(lo.ft, value, start, middle)
    ELSE Dec_search(lo.ft, value, middle, end)

Dec_search(ft, value, start, end) ==
    IF end - start > 1
    THEN Dec_search_step(checked_get_low(ft, shr(start + end, 1)), value,
                         start, end, shr(start + end, 1))
    ELSE [err |-> "", start |-> start, end |-> end, ft |-> ft]

\* value of ArithmeticDecoder.read
\* Mutant of Dec_value: the offset is scaled without rounding up.
Dec_value_RoundedDown(offset, total, range) == (offset * total) \div range

Dec_value(offset, total, range) == ((offset + 1) * total - 1) \div range

\* What a call of read leaves: [c, ft, input, symbol], symbol -1 when it raised
Dec_result(c, ft, input, symbol) ==
    [c |-> c, ft |-> ft, input |-> input, symbol |-> symbol]

\* read after self.update(freqs, symbol), r what update left, d its coder
\* without the bit stream
Dec_read_updated(r, d, symbol) ==
    IF d.err # "" THEN Dec_result(d, r.ft, r.c.input, -1)
    ELSE IF ~(d.low <= d.code /\ d.code <= d.high)
    THEN Dec_result(raise(d, "AssertionError: Code out of range"), r.ft,
                    r.c.input, -1)
    ELSE Dec_result(d, r.ft, r.c.input, symbol)

Dec_read_update(r, symbol) == Dec_read_updated(r, detach(r.c, "input"), symbol)

\* read from its last assertion on, lo and hi the low and high of symbol
Dec_read_symbol(c, input, total, range, offset, symbol, lo, hi) ==
    IF lo.err # "" THEN Dec_result(raise(c, lo.err), lo.ft, input, -1)
    ELSE IF hi.err # "" THEN Dec_result(raise(c, hi.err), hi.ft, input, -1)
    ELSE IF ~((lo.val * range) \div total <= offset
              /\ offset < (hi.val * range) \div total)
    THEN Dec_result(raise(c,
             "AssertionError: low * range // total <= offset < high * range // total"),
             hi.ft, input, -1)
    ELSE Dec_read_update(update(attach(c, "input", input), hi.ft, symbol), symbol)

\* read after the binary search, found what the search left
Dec_read_found(c, input, total, range, offset, found) ==
    IF found.err # "" THEN Dec_result(raise(c, found.err), found.ft, input, -1)
    ELSE IF found.start + 1 # found.end
    THEN Dec_result(raise(c, "AssertionError: start + 1 == end"), found.ft,
                    input, -1)
    ELSE Dec_read_symbol(c, input, total, range, offset, found.start,
                         checked_get_low(found.ft, found.start),
                         checked_get_high(found.ft, found.start))

\* read from value on
Dec_read_value(c, ft, input, total, range, offset, value) ==
    IF total = 0 THEN Dec_result(raise(c, "ZeroDivisionError"), ft, input, -1)
    ELSE IF ~((value * range) \div total <= offset)
    THEN Dec_result(raise(c, "AssertionError: value * range // total <= offset"),
                    ft, input, -1)
    ELSE IF ~(0 <= value /\ value < total)
    THEN Dec_result(raise(c, "AssertionError: 0 <= value < total"), ft, input, -1)
    ELSE IF checked_get_symbol_limit(ft).err # ""
    THEN Dec_result(raise(c, checked_get_symbol_limit(ft).err), ft, input, -1)
    ELSE Dec_read_found(c, input, total, range, offset,
             Dec_search(ft, value, 0, checked_get_symbol_limit(ft).val))

\* read from range on
Dec_read_range(c, ft, input, total, range, offset) ==
    IF range = 0 THEN Dec_result(raise(c, "ZeroDivisionError"), ft, input, -1)
    ELSE Dec_read_value(c, ft, input, total, range, offset,
                        Dec_value(offset, total, range))

\* Mutant of Dec_check_total: a total above maximum_total is not refused.
Dec_check_total_Unchecked(c, total) == total.err

\* The test read makes of total: the exception it raises, "" when none.
Dec_check_total(c, total) ==
    IF total.err # "" THEN total.err
    ELSE IF total.val > c.maximum_total
    THEN "ValueError: Cannot decode symbol because total is too large"
    ELSE ""

\* ArithmeticDecoder.read: [c, ft, input, symbol]
Dec_read_total(c, ft, input, total) ==
    IF Dec_check_total(c, total) # ""
    THEN Dec_result(raise(c, Dec_check_total(c, total)), ft, input, -1)
    ELSE Dec_read_range(c, ft, input, total.val, c.high - c.low + 1,
                        c.code - c.low)

Dec_read(c, ft, input) ==
    Dec_read_total(raise(c, ""), ft, input, checked_get_total(ft))

(* ----------------------------- compress.py ---------------------------- *)

\* The symbol of the end of the stream (256 in the drivers).
Sentinel == ByteValues

\* [0] * n
RECURSIVE zeros(_)
zeros(n) == IF n = 0 THEN <<>> ELSE <<0>> \o zeros(n - 1)

\* The loop of get_frequencies over the bytes of the file.
RECURSIVE count_bytes(_, _)
count_bytes(ft, bytes) ==
    IF bytes = <<>> \/ ft.err # "" THEN ft
    ELSE count_bytes(increment(ft, Head(bytes)), Tail(bytes))

\* get_frequencies: the table, with err
get_frequencies(bytes) ==
    count_bytes(SimpleFrequencyTable(zeros(ByteValues + 1)), bytes)

\* Mutant of write_int: the bits are written from the least significant one.
RECURSIVE write_int_LsbFirst(_, _, _)
write_int_LsbFirst(bitout, numbits, value) ==
    IF numbits = 0 \/ bitout.err # "" THEN bitout
    ELSE write_int_LsbFirst(BitOut_write(bitout, band(value, 1)),
                            numbits - 1, shr(value, 1))

\* write_int: the bit stream after the call, with err
RECURSIVE write_int(_, _, _)
write_int(bitout, numbits, value) ==
    IF numbits = 0 \/ bitout.err # "" THEN bitout
    ELSE write_int(BitOut_write(bitout, band(shr(value, numbits - 1), 1)),
                   numbits - 1, value)

\* write_int(bitout, 32, freqs.get(i)), f the result of freqs.get(i)
write_count(bitout, f) ==
    IF f.err # "" THEN raise(bitout, f.err)
    ELSE write_int(bitout, WriteIntBits, f.val)

\* write_frequencies, from symbol i on: the bit stream after the call, with err
RECURSIVE write_frequencies_from(_, _, _)
write_frequencies_from(bitout, ft, i) ==
    IF i = ByteValues \/ bitout.err # "" THEN bitout
    ELSE write_frequencies_from(write_count(bitout, get(ft, i)), ft, i + 1)

write_frequencies(bitout, ft) == write_frequencies_from(raise(bitout, ""), ft, 0)

(* ---------------------------- decompress.py --------------------------- *)

\* One turn of the for loop of read_int, b the result of read_no_eof.
read_int_bit(r, b) ==
    [err |-> b.err,
     val |-> IF b.err # "" THEN r.val ELSE bor(shl(r.val, 1), b.val),
     s   |-> b.s]

\* The for loop of read_int: r = [err, val, s] holds result and bitin, and
\* the exception of read_no_eof once it is raised.
RECURSIVE read_int_loop(_, _)
read_int_loop(r, n) ==
    IF n = 0 \/ r.err # "" THEN r
    ELSE read_int_loop(read_int_bit(r, BitIn_read_no_eof(r.s)), n - 1)

\* read_int of read_frequencies: [err, val, s]
read_int(s, n) == read_int_loop([err |-> "", val |-> 0, s |-> s], n)

\* One element of the list comprehension, r the result of read_int.
read_count(acc, r) ==
    [err |-> r.err,
     freqs |-> IF r.err # "" THEN acc.freqs ELSE Append(acc.freqs, r.val),
     s |-> r.s]

\* The list comprehension of read_frequencies: acc = [err, freqs, s]
RECURSIVE read_counts(_, _)
read_counts(acc, n) ==
    IF n = 0 \/ acc.err # "" THEN acc
    ELSE read_counts(read_count(acc, read_int(acc.s, ReadIntBits)), n - 1)

\* freqs.append(1); return code.SimpleFrequencyTable(freqs)
table_of(r) ==
    IF r.err # ""
    THEN [ft |-> [err |-> r.err, frequencies |-> <<>>, total |-> 0,
                  cumulative |-> None],
          s |-> r.s]
    ELSE [ft |-> SimpleFrequencyTable(Append(r.freqs, 1)), s |-> r.s]

\* read_frequencies: [ft, s], the table (with err) and the bit stream
read_frequencies(bitin) ==
    table_of(read_counts([err |-> "", freqs |-> <<>>, s |-> bitin], ByteValues))

(* ------------------------------- state -------------------------------- *)

VARIABLES
    num_state_bits, \* the numbits the drivers pass to the coders
    pc,             \* the position of the driver
    err,            \* the exception that ended the run, "" while there is none
    inputfile,      \* compress: the bytes of the input file
    inp,            \* compress: the bytes of the input file not read yet
    freqs,          \* compress: the SimpleFrequencyTable freqs
    bitout,         \* compress: the BitOutputStream bitout
    enc,            \* compress: the ArithmeticEncoder enc
    file,           \* the bytes of the compressed file
    bitin,          \* decompress: the BitInputStream bitin
    dfreqs,         \* decompress: the SimpleFrequencyTable freqs
    dec,            \* decompress: the ArithmeticDecoder dec
    out,            \* decompress: the bytes written to the output file
    calls,          \* the number of calls a client of the coders has made
    last            \* what the last call was given and what it returned

vars == <<num_state_bits, pc, err, inputfile, inp, freqs, bitout, enc, file,
          bitin, dfreqs, dec, out, calls, last>>

\* An object that has not been constructed yet.
NoTable == [err |-> "", frequencies |-> <<>>, total |-> 0, cumulative |-> None]

NoCoder == [err |-> "", kind |-> "none"]

NoCall == [op |-> "none"]

\* All sequences over S of length at most n.
SeqsUpTo(S, n) == UNION {[1..k -> S] : k \in 0..n}

(* ----------------------- compress.py and decompress.py ---------------- *)

\* The state when compress.main is entered with an input file and an output
\* path; nothing else has been constructed.
Init ==
    /\ num_state_bits \in 1..MaxStateBits
    /\ inputfile \in SeqsUpTo(0..(ByteValues - 1), MaxLen)
    /\ pc = "get_frequencies"
    /\ err = ""
    /\ inp = inputfile
    /\ freqs = NoTable
    /\ bitout = BitOutputStream
    /\ enc = NoCoder
    /\ file = <<>>
    /\ bitin = BitInputStream(<<>>)
    /\ dfreqs = NoTable
    /\ dec = NoCoder
    /\ out = <<>>
    /\ calls = 0
    /\ last = NoCall

\* compress.main: freqs = get_frequencies(inputfile); freqs.increment(256);
\* the two files are opened.
GetFrequencies ==
    /\ pc = "get_frequencies"
    /\ LET ft == get_frequencies(inputfile)
           ft1 == IF ft.err # "" THEN ft ELSE increment(ft, Sentinel)
       IN /\ freqs' = ft1
          /\ err' = ft1.err
          /\ pc' = IF ft1.err # "" THEN "failed" ELSE "write_frequencies"
    /\ last' = [op |-> "get_frequencies"]
    /\ UNCHANGED <<num_state_bits, inputfile, inp, bitout, enc, file, bitin,
                   dfreqs, dec, out,
                   calls>>

\* What contextlib.closing does when the with block is left by an exception:
\* bitout.close(), and the bytes written are the output file.
closed_after(o) == BitOut_close(o)

\* compress.main: write_frequencies(bitout, freqs)
WriteFrequencies ==
    /\ pc = "write_frequencies"
    /\ LET o == write_frequencies(bitout, freqs) IN
       IF o.err # ""
       THEN /\ bitout' = closed_after(o)
            /\ file' = bitout'.output
            /\ err' = o.err
            /\ pc' = "failed"
       ELSE /\ bitout' = o
            /\ UNCHANGED <<file, err>>
            /\ pc' = "new_encoder"
    /\ last' = [op |-> "write_frequencies"]
    /\ UNCHANGED <<num_state_bits, inputfile, inp, freqs, enc, bitin, dfreqs,
                   dec, out,
                   calls>>

\* compress.compress: enc = code.ArithmeticEncoder(32, bitout)
NewEncoder ==
    /\ pc = "new_encoder"
    /\ enc' = ArithmeticEncoder(num_state_bits)
    /\ pc' = "encode"
    /\ last' = [op |-> "ArithmeticEncoder"]
    /\ UNCHANGED <<num_state_bits, err, inputfile, inp, freqs, bitout, file,
                   bitin, dfreqs, dec, out,
                   calls>>

\* The encoder's call enc.write(freqs, symbol) and what follows it in the
\* driver: on an exception the with block closes bitout.
EncoderWrite(symbol, next) ==
    LET r == Enc_write(enc, freqs, bitout, symbol) IN
    /\ enc' = r.c
    /\ freqs' = r.ft
    /\ last' = [op |-> "write", symbol |-> symbol, err |-> r.c.err,
                enc |-> enc, bitout |-> bitout]
    /\ IF r.c.err # ""
       THEN /\ bitout' = closed_after(r.output)
            /\ file' = bitout'.output
            /\ err' = r.c.err
            /\ pc' = "failed"
       ELSE /\ bitout' = r.output
            /\ UNCHANGED <<file, err>>
            /\ pc' = next

\* compress.compress: one turn of the while loop, symbol = inp.read(1)
EncodeByte ==
    /\ pc = "encode"
    /\ inp # <<>>
    /\ inp' = Tail(inp)
    /\ EncoderWrite(Head(inp), "encode")
    /\ UNCHANGED <<num_state_bits, inputfile, bitin, dfreqs, dec, out,
                   calls>>

\* compress.compress: the end of the input is read and the loop is left;
\* enc.write(freqs, 256)
EncodeSentinel ==
    /\ pc = "encode"
    /\ inp = <<>>
    /\ EncoderWrite(Sentinel, "finish")
    /\ UNCHANGED <<num_state_bits, inputfile, inp, bitin, dfreqs, dec, out,
                   calls>>

\* compress.compress: enc.finish()
Finish ==
    /\ pc = "finish"
    /\ LET o == Enc_finish(enc, bitout) IN
       IF o.err # ""
       THEN /\ bitout' = closed_after(o)
            /\ file' = bitout'.output
            /\ err' = o.err
            /\ pc' = "failed"
       ELSE /\ bitout' = o
            /\ UNCHANGED <<file, err>>
            /\ pc' = "close"
    /\ last' = [op |-> "finish", enc |-> enc, bitout |-> bitout]
    /\ UNCHANGED <<num_state_bits, inputfile, inp, freqs, enc, bitin, dfreqs,
                   dec, out,
                   calls>>

\* compress.main: the with block is left, contextlib.closing calls
\* bitout.close(); the output file now holds the bytes written.
Close ==
    /\ pc = "close"
    /\ bitout' = BitOut_close(bitout)
    /\ file' = bitout'.output
    /\ err' = bitout'.err
    /\ pc' = IF bitout'.err # "" THEN "failed" ELSE "read_frequencies"
    /\ last' = [op |-> "close", bitout |-> bitout]
    /\ UNCHANGED <<num_state_bits, inputfile, inp, freqs, enc, bitin, dfreqs,
                   dec, out,
                   calls>>

\* decompress.main: bitin = code.BitInputStream(inp);
\* freqs = read_frequencies(bitin)
ReadFrequencies ==
    /\ pc = "read_frequencies"
    /\ LET r == read_frequencies(BitInputStream(file)) IN
       /\ bitin' = r.s
       /\ dfreqs' = r.ft
       /\ err' = r.ft.err
       /\ pc' = IF r.ft.err # "" THEN "failed" ELSE "new_decoder"
    /\ last' = [op |-> "read_frequencies"]
    /\ UNCHANGED <<num_state_bits, inputfile, inp, freqs, bitout, enc, file,
                   dec, out,
                   calls>>

\* decompress.decompress: dec = code.ArithmeticDecoder(32, bitin)
NewDecoder ==
    /\ pc = "new_decoder"
    /\ LET r == ArithmeticDecoder(num_state_bits, bitin) IN
       /\ dec' = r.c
       /\ bitin' = r.input
    /\ pc' = "decode"
    /\ last' = [op |-> "ArithmeticDecoder"]
    /\ UNCHANGED <<num_state_bits, err, inputfile, inp, freqs, bitout, enc,
                   file, dfreqs, out,
                   calls>>

\* decompress.decompress: one turn of the while loop
DecodeSymbol ==
    /\ pc = "decode"
    /\ LET r == Dec_read(dec, dfreqs, bitin) IN
       /\ dec' = r.c
       /\ dfreqs' = r.ft
       /\ bitin' = r.input
       /\ err' = r.c.err
       /\ last' = [op |-> "read", symbol |-> r.symbol, err |-> r.c.err,
                   dec |-> dec, bitin |-> bitin]
       /\ IF r.c.err # ""
          THEN pc' = "failed" /\ out' = out
          ELSE IF r.symbol = Sentinel
          THEN pc' = "done" /\ out' = out
          ELSE pc' = "decode" /\ out' = Append(out, r.symbol)
    /\ UNCHANGED <<num_state_bits, inputfile, inp, freqs, bitout, enc, file,
                   calls>>

Next ==
    \/ GetFrequencies
    \/ WriteFrequencies
    \/ NewEncoder
    \/ EncodeByte
    \/ EncodeSentinel
    \/ Finish
    \/ Close
    \/ ReadFrequencies
    \/ NewDecoder
    \/ DecodeSymbol

Spec == Init /\ [][Next]_vars

(* ------------------ decompress.py on an arbitrary file ---------------- *)

\* The four bytes of a count in the header: big-endian, 32 bits.
BigEndian32(v) ==
    <<(v \div 16777216) % 256, (v \div 65536) % 256, (v \div 256) % 256, v % 256>>

\* The lists of n counts whose sum is at most MaxSum.
CountVectors(n) == {cv \in [1..n -> 0..MaxSum] : sum(cv) <= MaxSum}

\* The bytes that hold the bits, the last byte filled up with zeros.
PadBits(bits) == bits \o zeros((ByteBits - (Len(bits) % ByteBits)) % ByteBits)

RECURSIVE ByteOfBits(_)
ByteOfBits(bits) ==
    IF bits = <<>> THEN 0 ELSE 2 * ByteOfBits(SubSeq(bits, 1, Len(bits) - 1))
                               + bits[Len(bits)]

BytesOfBits(bits) ==
    [k \in 1..(Len(PadBits(bits)) \div ByteBits) |->
        ByteOfBits(SubSeq(PadBits(bits), ByteBits * (k - 1) + 1, ByteBits * k))]

\* The byte streams a decoder is given: every bit string of at most MaxBits
\* bits, in whole bytes.
Streams == {BytesOfBits(bits) : bits \in SeqsUpTo({0, 1}, MaxBits)}

\* The headers: ByteValues counts of 32 bits, big-endian.
RECURSIVE HeaderOf(_)
HeaderOf(cv) ==
    IF cv = <<>> THEN <<>> ELSE BigEndian32(Head(cv)) \o HeaderOf(Tail(cv))

\* The files decompress is given: a header followed by a stream, or a header
\* cut short.
Files ==
    {HeaderOf(cv) \o st : cv \in CountVectors(ByteValues), st \in Streams}
    \cup {SubSeq(HeaderOf(cv), 1, n) :
              cv \in CountVectors(ByteValues), n \in 0..(4 * ByteValues - 1)}

\* The state when decompress.main has opened its two files.
InitDecode ==
    /\ num_state_bits \in 1..MaxStateBits
    /\ file \in Files
    /\ pc = "read_frequencies"
    /\ err = ""
    /\ inputfile = <<>>
    /\ inp = <<>>
    /\ freqs = NoTable
    /\ bitout = BitOutputStream
    /\ enc = NoCoder
    /\ bitin = BitInputStream(<<>>)
    /\ dfreqs = NoTable
    /\ dec = NoCoder
    /\ out = <<>>
    /\ calls = 0
    /\ last = NoCall

\* decompress.decompress: one turn of the while loop, while the output is
\* shorter than MaxCalls (a file no encoder wrote may never yield the sentinel).
DecodeSymbolOfFile ==
    /\ Len(out) < MaxCalls
    /\ DecodeSymbol

NextDecode ==
    \/ ReadFrequencies
    \/ NewDecoder
    \/ DecodeSymbolOfFile

SpecDecode == InitDecode /\ [][NextDecode]_vars

(* ------------------------ clients of the coders ----------------------- *)

\* A client holds a table of ByteValues + 1 symbols with any counts, and
\* either an encoder it writes any symbols to, or a decoder over any stream.
InitApi ==
    /\ num_state_bits \in 1..MaxStateBits
    /\ err = ""
    /\ inputfile = <<>>
    /\ inp = <<>>
    /\ out = <<>>
    /\ calls = 0
    /\ last = NoCall
    /\ \E cv \in CountVectors(ByteValues + 1) :
          \/ /\ pc = "api_encoder"
             /\ freqs = SimpleFrequencyTable(cv)
             /\ bitout = BitOutputStream
             /\ enc = ArithmeticEncoder(num_state_bits)
             /\ file = <<>>
             /\ bitin = BitInputStream(<<>>)
             /\ dfreqs = NoTable
             /\ dec = NoCoder
          \/ /\ pc = "api_new_decoder"
             /\ file \in Streams
             /\ bitin = BitInputStream(file)
             /\ dfreqs = SimpleFrequencyTable(cv)
             /\ dec = NoCoder
             /\ freqs = NoTable
             /\ bitout = BitOutputStream
             /\ enc = NoCoder

\* enc.write(freqs, symbol) for any symbol, in range or not; an exception
\* ends the session.
ApiWrite(symbol) ==
    /\ pc = "api_encoder"
    /\ calls < MaxCalls
    /\ LET r == Enc_write(enc, freqs, bitout, symbol) IN
       /\ enc' = r.c
       /\ freqs' = r.ft
       /\ bitout' = r.output
       /\ err' = r.c.err
       /\ pc' = IF r.c.err # "" THEN "api_raised" ELSE "api_encoder"
       /\ last' = [op |-> "write", symbol |-> symbol, err |-> r.c.err,
                   enc |-> enc, bitout |-> bitout]
    /\ calls' = calls + 1
    /\ UNCHANGED <<num_state_bits, inputfile, inp, file, bitin, dfreqs, dec, out>>

\* enc.finish()
ApiFinish ==
    /\ pc = "api_encoder"
    /\ bitout' = Enc_finish(enc, bitout)
    /\ err' = bitout'.err
    /\ pc' = IF bitout'.err # "" THEN "api_raised" ELSE "api_finished"
    /\ last' = [op |-> "finish", enc |-> enc, bitout |-> bitout]
    /\ UNCHANGED <<num_state_bits, inputfile, inp, freqs, enc, file, bitin,
                   dfreqs, dec, out, calls>>

\* dec = ArithmeticDecoder(numbits, bitin)
ApiNewDecoder ==
    /\ pc = "api_new_decoder"
    /\ LET r == ArithmeticDecoder(num_state_bits, bitin) IN
       /\ dec' = r.c
       /\ bitin' = r.input
    /\ pc' = "api_decoder"
    /\ last' = [op |-> "ArithmeticDecoder"]
    /\ UNCHANGED <<num_state_bits, err, inputfile, inp, freqs, bitout, enc,
                   file, dfreqs, out, calls>>

\* dec.read(freqs); an exception ends the session.
ApiRead ==
    /\ pc = "api_decoder"
    /\ calls < MaxCalls
    /\ LET r == Dec_read(dec, dfreqs, bitin) IN
       /\ dec' = r.c
       /\ dfreqs' = r.ft
       /\ bitin' = r.input
       /\ err' = r.c.err
       /\ pc' = IF r.c.err # "" THEN "api_raised" ELSE "api_decoder"
       /\ out' = IF r.c.err # "" THEN out ELSE Append(out, r.symbol)
       /\ last' = [op |-> "read", symbol |-> r.symbol, err |-> r.c.err,
                   dec |-> dec, bitin |-> bitin]
    /\ calls' = calls + 1
    /\ UNCHANGED <<num_state_bits, inputfile, inp, freqs, bitout, enc, file>>

NextApi ==
    \/ \E symbol \in -1..(ByteValues + 1) : ApiWrite(symbol)
    \/ ApiFinish
    \/ ApiNewDecoder
    \/ ApiRead

SpecApi == InitApi /\ [][NextApi]_vars

(* ---------------------- clients of a frequency table ------------------ *)

\* A client holds a SimpleFrequencyTable of ByteValues + 1 symbols built from
\* any counts; the coders and the streams are not used.
InitFreq ==
    /\ num_state_bits \in {1}
    /\ pc = "table"
    /\ err = ""
    /\ inputfile = <<>>
    /\ inp = <<>>
    /\ \E cv \in CountVectors(ByteValues + 1) : freqs = SimpleFrequencyTable(cv)
    /\ bitout = BitOutputStream
    /\ enc = NoCoder
    /\ file = <<>>
    /\ bitin = BitInputStream(<<>>)
    /\ dfreqs = NoTable
    /\ dec = NoCoder
    /\ out = <<>>
    /\ calls = 0
    /\ last = NoCall

\* freqs.set(symbol, freq); an exception leaves the table to the client.
\* last keeps the cumulative list the table had before the call.
TableSet(symbol, freq) ==
    /\ pc = "table"
    /\ calls < MaxCalls
    /\ freqs' = raise(set(freqs, symbol, freq), "")
    /\ err' = set(freqs, symbol, freq).err
    /\ last' = [op |-> "set", symbol |-> symbol, err |-> err', val |-> freq,
                cumulative |-> freqs.cumulative]
    /\ calls' = calls + 1
    /\ UNCHANGED <<num_state_bits, pc, inputfile, inp, bitout, enc, file,
                   bitin, dfreqs, dec, out>>

\* freqs.increment(symbol)
TableIncrement(symbol) ==
    /\ pc = "table"
    /\ calls < MaxCalls
    /\ freqs' = raise(increment(freqs, symbol), "")
    /\ err' = increment(freqs, symbol).err
    /\ last' = [op |-> "increment", symbol |-> symbol, err |-> err', val |-> 0,
                cumulative |-> freqs.cumulative]
    /\ calls' = calls + 1
    /\ UNCHANGED <<num_state_bits, pc, inputfile, inp, bitout, enc, file,
                   bitin, dfreqs, dec, out>>

\* What a query leaves: r is [err, val, ft].
TableQueried(op, symbol, r) ==
    /\ pc = "table"
    /\ freqs' = raise(r.ft, "")
    /\ err' = r.err
    /\ last' = [op |-> op, symbol |-> symbol, err |-> r.err, val |-> r.val]
    /\ UNCHANGED <<num_state_bits, pc, inputfile, inp, bitout, enc, file,
                   bitin, dfreqs, dec, out, calls>>

\* freqs.get(symbol)
TableGet(symbol) == TableQueried("get", symbol, get(freqs, symbol))

\* freqs.get_low(symbol)
TableGetLow(symbol) == TableQueried("get_low", symbol, get_low(freqs, symbol))

\* freqs.get_high(symbol)
TableGetHigh(symbol) == TableQueried("get_high", symbol, get_high(freqs, symbol))

NextFreq ==
    \/ \E symbol \in -1..(ByteValues + 1), freq \in -1..MaxSum :
          TableSet(symbol, freq)
    \/ \E symbol \in -1..(ByteValues + 1) : TableIncrement(symbol)
    \/ \E symbol \in -1..(ByteValues + 1) : TableGet(symbol)
    \/ \E symbol \in -1..(ByteValues + 1) : TableGetLow(symbol)
    \/ \E symbol \in -1..(ByteValues + 1) : TableGetHigh(symbol)

SpecFreq == InitFreq /\ [][NextFreq]_vars

(* ----------------------- clients of the bit streams ------------------- *)

\* A client writes the bits of inputfile to a BitOutputStream, closes it,
\* and reads the file back bit by bit through a BitInputStream, going on
\* twice after the end; inp holds the bits it has not written yet and out
\* what the reads returned.
InitBits ==
    /\ num_state_bits \in {1}
    /\ pc = "bits_write"
    /\ err = ""
    /\ inputfile \in SeqsUpTo({0, 1}, MaxWritten)
    /\ inp = inputfile
    /\ freqs = NoTable
    /\ bitout = BitOutputStream
    /\ enc = NoCoder
    /\ file = <<>>
    /\ bitin = BitInputStream(<<>>)
    /\ dfreqs = NoTable
    /\ dec = NoCoder
    /\ out = <<>>
    /\ calls = 0
    /\ last = NoCall

\* bitout.write(b), b the next bit of the client
BitsWrite ==
    /\ pc = "bits_write"
    /\ inp # <<>>
    /\ bitout' = BitOut_write(bitout, Head(inp))
    /\ inp' = Tail(inp)
    /\ err' = bitout'.err
    /\ last' = [op |-> "write", symbol |-> Head(inp), err |-> bitout'.err]
    /\ UNCHANGED <<num_state_bits, pc, inputfile, freqs, enc, file, bitin,
                   dfreqs, dec, out, calls>>

\* bitout.close(), and the file opened again under a BitInputStream
BitsClose ==
    /\ pc = "bits_write"
    /\ inp = <<>>
    /\ bitout' = BitOut_close(bitout)
    /\ err' = bitout'.err
    /\ file' = bitout'.output
    /\ bitin' = BitInputStream(file')
    /\ pc' = "bits_read"
    /\ last' = [op |-> "close", symbol |-> 0, err |-> bitout'.err]
    /\ UNCHANGED <<num_state_bits, inputfile, inp, freqs, enc, dfreqs, dec,
                   out, calls>>

\* bitin.read()
BitsRead ==
    /\ pc = "bits_read"
    /\ Len(out) < ByteBits * Len(file) + 2
    /\ bitin' = BitIn_read(bitin).s
    /\ out' = Append(out, BitIn_read(bitin).val)
    /\ last' = [op |-> "read", symbol |-> BitIn_read(bitin).val, err |-> ""]
    /\ UNCHANGED <<num_state_bits, pc, err, inputfile, inp, freqs, bitout,
                   enc, file, dfreqs, dec, calls>>

NextBits ==
    \/ BitsWrite
    \/ BitsClose
    \/ BitsRead

SpecBits == InitBits /\ [][NextBits]_vars

(* ----------------------- properties of the drivers --------------------- *)

\* MAX_TOTAL of the coders the drivers construct.
MaxTotal == ArithmeticCoderBase(num_state_bits).maximum_total

\* The positions of decompress.py reached once read_frequencies has returned.
Decoding == pc \in {"new_decoder", "decode", "done"}

IsPrefix(s, t) == Len(s) <= Len(t) /\ s = SubSeq(t, 1, Len(s))

\* C1, as stated: for every byte sequence B, compressing B and decompressing
\* the result never fails and gives back exactly B.
C1_RoundTripEveryInput ==
    /\ pc # "failed"
    /\ pc = "done" => out = inputfile

\* C1, amended: for every byte sequence B whose length plus one (the model's
\* total, sentinel included) is at most MAX_TOTAL, neither compress nor
\* decompress fails, the decoder returns the symbols of B in order (what has
\* been written to the output is always a prefix of B), and when it returns
\* the sentinel the output is exactly B.
C1_RoundTrip ==
    Len(inputfile) + 1 <= MaxTotal =>
        /\ pc # "failed"
        /\ err = ""
        /\ IsPrefix(out, inputfile)
        /\ pc = "done" => /\ out = inputfile
                          /\ last.op = "read"
                          /\ last.symbol = Sentinel

\* A round trip of an input of the greatest length that holds both byte
\* values, ended by the sentinel.
C1_Witness ==
    /\ pc = "done"
    /\ Len(inputfile) = MaxLen
    /\ \E i, j \in 1..Len(inputfile) : inputfile[i] # inputfile[j]
    /\ out = inputfile

\* The header of the table ft: the counts of the symbols 0 .. ByteValues - 1.
RECURSIVE HeaderBytes(_, _)
HeaderBytes(ft, i) ==
    IF i = ByteValues THEN <<>>
    ELSE BigEndian32(ft.frequencies[i + 1]) \o HeaderBytes(ft, i + 1)

HeaderLen == 4 * ByteValues

\* C6: the bytes the compressor has written when write_frequencies returns
\* are exactly the header, 32 bits per data symbol, big-endian, and they
\* stay the first bytes of the file; the table read_frequencies builds has
\* the counts, the total and the cumulative low and high of the table the
\* encoder used, for every symbol, the sentinel with count 1 included.
C6_HeaderRoundTrip ==
    /\ pc \in {"new_encoder", "encode"} /\ inp = inputfile =>
          /\ bitout.output = HeaderBytes(freqs, 0)
          /\ bitout.numbitsfilled = 0
    /\ pc \notin {"get_frequencies", "write_frequencies", "failed"} =>
          /\ IsPrefix(HeaderBytes(freqs, 0), bitout.output)
          /\ freqs.frequencies[Sentinel + 1] = 1
    /\ Decoding =>
          /\ SubSeq(file, 1, HeaderLen) = HeaderBytes(freqs, 0)
          /\ Len(bitin.input) <= Len(file) - HeaderLen
          /\ dfreqs.frequencies = freqs.frequencies
          /\ dfreqs.total = freqs.total
          /\ \A sym \in 0..ByteValues :
                /\ get_low(dfreqs, sym).val = get_low(freqs, sym).val
                /\ get_high(dfreqs, sym).val = get_high(freqs, sym).val
                /\ get_high(dfreqs, sym).val - get_low(dfreqs, sym).val
                       = freqs.frequencies[sym + 1]
                /\ get_low(dfreqs, sym).err = ""

\* The table has been read back from a header that holds two different
\* nonzero counts.
C6_Witness ==
    /\ pc = "new_decoder"
    /\ dfreqs.frequencies = freqs.frequencies
    /\ \E a, b \in 1..ByteValues :
          /\ freqs.frequencies[a] > freqs.frequencies[b]
          /\ freqs.frequencies[b] > 0

\* C8: for the empty input the table is all zeros but the sentinel's 1, the
\* header is all zeros, writing the sentinel emits no bit, the file is the
\* header followed by the finish bit padded to one byte, and the decoder's
\* first read returns the sentinel, so that the output is empty.
C8_EmptyInput ==
    inputfile = <<>> =>
        /\ pc # "failed"
        /\ pc # "get_frequencies" =>
              freqs.frequencies = zeros(ByteValues) \o <<1>>
        /\ pc \in {"new_encoder", "encode", "finish"} =>
              bitout.output = zeros(HeaderLen) /\ bitout.numbitsfilled = 0
        /\ pc = "close" => /\ bitout.output = zeros(HeaderLen)
                           /\ bitout.numbitsfilled = 1
                           /\ bitout.currentbyte = 1
        /\ pc \in {"read_frequencies", "new_decoder", "decode", "done"} =>
              file = zeros(HeaderLen) \o <<128>>
        /\ pc \in {"decode", "done"} =>
              dfreqs.frequencies = zeros(ByteValues) \o <<1>>
        /\ pc = "decode" => out = <<>> /\ last.op = "ArithmeticDecoder"
        /\ pc = "done" => /\ out = <<>>
                          /\ last.op = "read"
                          /\ last.symbol = Sentinel

\* The empty input has been compressed and decompressed.
C8_Witness == inputfile = <<>> /\ pc = "done" /\ file # <<>>


(* ----------------------- properties of the coders --------------------- *)

\* The interval of a coder is in order, within the state mask, and neither
\* narrower than minimum_range nor wider than full_range.
IntervalInRange(c) ==
    /\ c.low < c.high
    /\ band(c.low, c.state_mask) = c.low
    /\ band(c.high, c.state_mask) = c.high
    /\ c.minimum_range <= c.high - c.low + 1
    /\ c.high - c.low + 1 <= c.full_range

\* The last call was a write, or a read, that returned.
Returned(op) == last.op = op /\ last.err = ""

\* C2: for every state width, from low = 0 and high = state_mask on and after
\* every update, of the encoder and of the decoder, low < high, both are
\* within the state mask and minimum_range <= high - low + 1 <= full_range;
\* neither of the two assertions at the top of update is ever raised.
C2_CoderInvariant ==
    /\ enc.kind = "encoder" => IntervalInRange(enc)
    /\ dec.kind = "decoder" => IntervalInRange(dec)
    /\ err # "AssertionError: Low or high out of range"
    /\ err # "AssertionError: Range out of range"

\* An encoder with a pending underflow bit after its second write or a later
\* one.
C2_Witness ==
    /\ Returned("write")
    /\ calls >= 2
    /\ enc.num_underflow > 0
    /\ enc.low # 0

\* C3: from its construction on and after every read, over every bit stream
\* (also one that ends early, read as zeros from there on), the decoder has
\* low <= code <= high and 0 <= code <= state_mask; "Code out of range" is
\* never raised.
C3_DecoderTracking ==
    /\ dec.kind = "decoder" =>
          /\ dec.low <= dec.code /\ dec.code <= dec.high
          /\ 0 <= dec.code /\ dec.code <= dec.state_mask
    /\ err # "AssertionError: Code out of range"

\* A second or later read that returned, ran past the end of a stream that is
\* not empty, and changed the code.
C3_Witness ==
    /\ Returned("read")
    /\ pc = "api_decoder"
    /\ calls >= 2
    /\ file # <<>>
    /\ bitin.currentbyte = -1
    /\ dec.code # last.dec.code

\* The symbol of the last write is one of the table, and its count is n.
WroteSymbolOfCount(n) ==
    /\ last.op = "write"
    /\ last.symbol \in 0..(Len(freqs.frequencies) - 1)
    /\ freqs.frequencies[last.symbol + 1] = n

\* The last write left the encoder's low, high and num_underflow and the bit
\* stream as they were.
WriteChangedNothing ==
    /\ enc.low = last.enc.low
    /\ enc.high = last.enc.high
    /\ enc.num_underflow = last.enc.num_underflow
    /\ bitout = last.bitout

\* C9: a write of a symbol of the table whose count is 0 raises "Symbol has
\* zero frequency" and leaves low, high, num_underflow and the bits written
\* so far unchanged.
C9_ZeroFrequency ==
    WroteSymbolOfCount(0) =>
        /\ last.err = "ValueError: Symbol has zero frequency"
        /\ pc = "api_raised"
        /\ WriteChangedNothing

\* A refused write of a zero-count symbol after a write that emitted bits.
C9_Witness ==
    /\ WroteSymbolOfCount(0)
    /\ calls >= 2
    /\ bitout.numbitsfilled > 0
    /\ enc.low # 0

\* C10, as stated: with a total above maximum_total, update of any symbol of
\* the table, whatever its count, raises "total is too large" and leaves low
\* and high unchanged.
C10_TotalCheckedFirst ==
    (last.op = "write" /\ last.symbol \in 0..(Len(freqs.frequencies) - 1)
                      /\ freqs.total > enc.maximum_total) =>
        /\ last.err = "ValueError: Cannot code symbol because total is too large"
        /\ WriteChangedNothing

\* C10, amended: with a total above maximum_total, update of a symbol of the
\* table raises "total is too large" when the symbol's count is not 0 and
\* "Symbol has zero frequency" when it is 0; either way low and high are left
\* unchanged and no bit is written.
C10_ModelTooLarge ==
    (last.op = "write" /\ last.symbol \in 0..(Len(freqs.frequencies) - 1)
                      /\ freqs.total > enc.maximum_total) =>
        /\ last.err =
              IF freqs.frequencies[last.symbol + 1] = 0
              THEN "ValueError: Symbol has zero frequency"
              ELSE "ValueError: Cannot code symbol because total is too large"
        /\ pc = "api_raised"
        /\ WriteChangedNothing

\* A write refused for the total, of a symbol whose count is not 0.
C10_Witness ==
    /\ last.op = "write"
    /\ freqs.total > enc.maximum_total
    /\ last.symbol \in 0..(Len(freqs.frequencies) - 1)
    /\ freqs.frequencies[last.symbol + 1] > 0
    /\ pc = "api_raised"

(* ----------------- properties of decompress on any file --------------- *)

\* C7: when the counts of the header and the sentinel's 1 add up to more than
\* maximum_total, decompress fails on the first read with "total is too
\* large", with no byte of output and with low and high as the constructor
\* set them.
C7_HeaderTooLarge ==
    (dfreqs.err = "" /\ dfreqs.total > MaxTotal) =>
        /\ pc # "done"
        /\ out = <<>>
        /\ pc = "decode" => last.op = "ArithmeticDecoder"
        /\ pc = "failed" =>
              /\ last.op = "read"
              /\ err = "ValueError: Cannot decode symbol because total is too large"
              /\ dec.low = 0
              /\ dec.high = dec.state_mask
              /\ dec.code = last.dec.code

\* decompress has failed on a header whose counts are too large.
C7_Witness ==
    /\ pc = "failed"
    /\ last.op = "read"
    /\ dfreqs.total > MaxTotal
    /\ sum(dfreqs.frequencies) = dfreqs.total

(* ------------------ properties of the frequency table ----------------- *)

\* The sum of the first n counts of the table.
CountsBelow(n) == sum(SubSeq(freqs.frequencies, 1, n))

\* The symbol after s has its low where s has its high.
NextLowIsHigh(s) ==
    s + 1 < Len(freqs.frequencies) =>
        get_low(freqs, s + 1).val = get_high(freqs, s).val

\* What get_low and get_high return for the symbol s of the table as it is.
CumulativeConsistent(s) ==
    /\ get_low(freqs, s).err = "" /\ get_high(freqs, s).err = ""
    /\ 0 <= get_low(freqs, s).val
    /\ get_low(freqs, s).val <= get_high(freqs, s).val
    /\ get_high(freqs, s).val <= get_total(freqs)
    /\ get_high(freqs, s).val - get_low(freqs, s).val = get(freqs, s).val
    /\ s = 0 => get_low(freqs, s).val = 0
    /\ NextLowIsHigh(s)
    /\ s = Len(freqs.frequencies) - 1 => get_high(freqs, s).val = get_total(freqs)

\* C4: after any sequence of set and increment, also ones that follow queries
\* which filled the cumulative list, get_low and get_high of every symbol s
\* satisfy 0 <= low(s) <= high(s) <= total, high(s) - low(s) = count(s),
\* low(0) = 0, low(s+1) = high(s) and high(N-1) = total; a query never
\* returns a value of the list as it was before a mutation.
C4_CumulativeConsistency ==
    pc = "table" =>
        /\ \A s \in 0..(Len(freqs.frequencies) - 1) : CumulativeConsistent(s)
        /\ (last.op = "get_low" /\ last.err = "") =>
               last.val = CountsBelow(last.symbol)
        /\ (last.op = "get_high" /\ last.err = "") =>
               last.val = CountsBelow(last.symbol + 1)

\* A set that returned, made on a table whose cumulative list was filled and
\* no longer fits the counts.
C4_Witness ==
    /\ pc = "table"
    /\ calls >= 2
    /\ last.op = "set" /\ last.err = ""
    /\ last.cumulative # None
    /\ last.cumulative # init_cumulative(freqs).cumulative
    /\ freqs.total > 0

(* -------------------- properties of the bit streams ------------------- *)

\* The number of bytes that hold n bits.
BytesFor(n) == (n + ByteBits - 1) \div ByteBits

\* What the i-th read returns when the bits written were those of bits.
ReadBack(bits, i) ==
    IF i <= Len(bits) THEN bits[i]
    ELSE IF i <= ByteBits * BytesFor(Len(bits)) THEN 0
    ELSE -1

\* C5: n bits written and the stream closed leave ceil(n/8) bytes in the
\* file; reading them back gives the n bits in order, then zeros up to the
\* end of the last byte, then -1 on every read.
C5_BitRoundTrip ==
    pc = "bits_read" =>
        /\ err = ""
        /\ Len(file) = BytesFor(Len(inputfile))
        /\ \A i \in 1..Len(out) : out[i] = ReadBack(inputfile, i)

\* More than a byte of bits, the last one a 1, read back to the end and twice
\* beyond it.
C5_Witness ==
    /\ pc = "bits_read"
    /\ Len(inputfile) > ByteBits
    /\ inputfile[Len(inputfile)] = 1
    /\ inputfile[1] = 0
    /\ Len(out) = ByteBits * Len(file) + 2
    /\ out[Len(out)] = -1
    /\ out[Len(out) - 1] = -1

(* ------------------- properties of the end of the stream -------------- *)

\* The n low bits of v, the highest first.
RECURSIVE BitsOfByte(_, _)
BitsOfByte(v, n) ==
    IF n = 0 THEN <<>> ELSE BitsOfByte(v \div 2, n - 1) \o <<v % 2>>

\* The bits of a list of bytes.
RECURSIVE BitsOfBytes(_)
BitsOfBytes(bytes) ==
    IF bytes = <<>> THEN <<>>
    ELSE BitsOfByte(Head(bytes), ByteBits) \o BitsOfBytes(Tail(bytes))

\* The bits written to a BitOutputStream so far: those of the bytes it has
\* written and those it holds in currentbyte.
BitsWritten(s) ==
    BitsOfBytes(s.output) \o BitsOfByte(s.currentbyte, s.numbitsfilled)

\* C11: finish writes exactly one bit, a 1, and leaves low, high and
\* num_underflow as they were (pending underflow bits are not written); the
\* closed file holds the bits written before finish, the 1, and 0 to 7 zeros;
\* the file decodes to the input and the sentinel also when num_underflow > 0
\* at finish.
C11_FinishMarker ==
    /\ pc = "close" =>
          /\ last.op = "finish"
          /\ BitsWritten(bitout) = BitsWritten(last.bitout) \o <<1>>
          /\ enc = last.enc
    /\ (pc = "read_frequencies" /\ last.op = "close") =>
          /\ Len(BitsOfBytes(file)) - Len(BitsWritten(last.bitout)) \in 0..7
          /\ BitsOfBytes(file) =
                BitsWritten(last.bitout)
                \o zeros(Len(BitsOfBytes(file)) - Len(BitsWritten(last.bitout)))
          /\ BitsWritten(last.bitout)[Len(BitsWritten(last.bitout))] = 1
    /\ pc = "done" => out = inputfile

\* An input decoded to the end from a file whose encoder had underflow bits
\* pending when it finished.
C11_Witness ==
    /\ pc = "done"
    /\ enc.num_underflow > 0
    /\ inputfile # <<>>
    /\ out = inputfile

(* -------------------- properties of ArithmeticDecoder.read ------------ *)

\* The sums of the counts of the table ft below the symbol s, and up to it.
LowOf(ft, s) == sum(SubSeq(ft.frequencies, 1, s))

HighOf(ft, s) == sum(SubSeq(ft.frequencies, 1, s + 1))

\* range, offset and value of the last read, from the decoder as it was when
\* read was called.
ReadRange == last.dec.high - last.dec.low + 1

ReadOffset == last.dec.code - last.dec.low

ReadValue == ((ReadOffset + 1) * dfreqs.total - 1) \div ReadRange

\* The last call was a read with a table whose total read accepts.
ReadAccepted ==
    /\ last.op = "read"
    /\ 1 <= dfreqs.total
    /\ dfreqs.total <= last.dec.maximum_total

\* C12: in every read with 1 <= total <= maximum_total, over any bit stream,
\* 0 <= value < total, and read returns a symbol s whose count is not 0, with
\* low(s) <= value < high(s) and
\* low(s) * range // total <= offset < high(s) * range // total; no assertion
\* of read (that of the end of the binary search included) fails.
C12_SymbolSelection ==
    ReadAccepted =>
        /\ last.err = ""
        /\ 0 <= ReadValue /\ ReadValue < dfreqs.total
        /\ last.symbol \in 0..(Len(dfreqs.frequencies) - 1)
        /\ dfreqs.frequencies[last.symbol + 1] > 0
        /\ LowOf(dfreqs, last.symbol) <= ReadValue
        /\ ReadValue < HighOf(dfreqs, last.symbol)
        /\ (LowOf(dfreqs, last.symbol) * ReadRange) \div dfreqs.total
              <= ReadOffset
        /\ ReadOffset
              < (HighOf(dfreqs, last.symbol) * ReadRange) \div dfreqs.total

\* A second or later read, from a narrowed interval, that returned a symbol
\* with a zero-count symbol right below it.
C12_Witness ==
    /\ ReadAccepted
    /\ last.err = ""
    /\ calls >= 2
    /\ last.dec.low # 0
    /\ last.symbol >= 1
    /\ dfreqs.frequencies[last.symbol] = 0

\* The symbols of the table whose low is the value of the last read.
LowIsValue ==
    {t \in 0..(Len(dfreqs.frequencies) - 1) : LowOf(dfreqs, t) = ReadValue}

\* C13, as stated: when several symbols have low == value, read returns the
\* lowest of them.
C13_LowestOnTie ==
    (ReadAccepted /\ last.err = "" /\ Cardinality(LowIsValue) >= 2) =>
        \A t \in LowIsValue : last.symbol <= t

\* C13, amended: when several symbols have low == value, read returns the
\* highest of them, the only one whose count is not 0; those below it have
\* the count 0.
C13_HighestOnTie ==
    (ReadAccepted /\ Cardinality(LowIsValue) >= 2) =>
        /\ last.err = ""
        /\ last.symbol \in LowIsValue
        /\ dfreqs.frequencies[last.symbol + 1] > 0
        /\ \A t \in LowIsValue :
              /\ t <= last.symbol
              /\ t < last.symbol => dfreqs.frequencies[t + 1] = 0

\* A read that returned with three symbols sharing the low that is value.
C13_Witness ==
    /\ ReadAccepted
    /\ last.err = ""
    /\ Cardinality(LowIsValue) >= 3
    /\ last.symbol \in LowIsValue

(* ----------------- properties of encoder and decoder together --------- *)

\* The symbols compress writes: the bytes of the input, then the sentinel.
Symbols == inputfile \o <<Sentinel>>

\* The encoder and its bit stream when it has written the first n symbols
\* with the table freqs, from the end of the header on: [c, ft, output]
EncoderWrote(e, symbol) == Enc_write(e.c, freqs, e.output, symbol)

RECURSIVE EncoderAfter(_)
EncoderAfter(n) ==
    IF n = 0
    THEN [c |-> ArithmeticEncoder(num_state_bits), ft |-> freqs,
          output |-> write_frequencies(BitOutputStream, freqs)]
    ELSE EncoderWrote(EncoderAfter(n - 1), Symbols[n])

\* The number of bits written to a BitOutputStream so far.
NumBitsWritten(s) == ByteBits * Len(s.output) + s.numbitsfilled

\* The bits the encoder e has written since the header.
PayloadBits(e) ==
    NumBitsWritten(e.output) - WriteIntBits * ByteValues

\* The reads the decoder has returned from.
ReadsDone == IF pc = "done" THEN Len(out) + 1 ELSE Len(out)

\* The writes the encoder has returned from.
WritesDone == Len(inputfile) - Len(inp) + (IF pc = "finish" THEN 1 ELSE 0)

\* The code bits the decoder has asked for: num_state_bits in __init__, one
\* in every shift and in every underflow.
CodeBitsRead == num_state_bits + dec.shift_turns + dec.underflow_turns

\* The bits taken from the file through a BitInputStream.
FileBitsTaken ==
    ByteBits * (Len(file) - Len(bitin.input)) - bitin.numbitsremaining

\* The encoder and its stream are e.
EncoderIs(e) == enc = e.c /\ bitout = e.output

\* The decoder is where the encoder e was, and has read the bits e had
\* written and as many more as num_state_bits and e's num_underflow.
DecoderAt(e) ==
    /\ dec.low = e.c.low
    /\ dec.high = e.c.high
    /\ CodeBitsRead = num_state_bits + PayloadBits(e) + e.c.num_underflow
    /\ NumBitsWritten(e.output) >= WriteIntBits * ByteValues

\* The bits taken from the file are the header and the code bits read, as
\* far as the file has them.
FileBitsAreCodeBits(asked) ==
    FileBitsTaken = IF asked <= ByteBits * Len(file) THEN asked
                    ELSE ByteBits * Len(file)

\* C14: when the decoder reads the file the encoder wrote for the symbols
\* s1 .. sk with the same table, then after the i-th read its low and high
\* are those of the encoder after its i-th write, the i-th symbol returned
\* is si, and the code bits it has read (those past the end of the file
\* included, read as zeros) are num_state_bits plus the bits the encoder had
\* written plus its num_underflow then.
C14_Lockstep ==
    /\ pc \in {"encode", "finish"} => EncoderIs(EncoderAfter(WritesDone))
    /\ pc \in {"decode", "done"} =>
          /\ DecoderAt(EncoderAfter(ReadsDone))
          /\ ReadsDone >= 1 => last.symbol = Symbols[ReadsDone]
          /\ FileBitsAreCodeBits(WriteIntBits * ByteValues + CodeBitsRead)

\* An encoder with pending bits and bits written.
PendingAndWritten(e) == e.c.num_underflow > 0 /\ PayloadBits(e) > 0

\* The decoder after its third read or a later one that was not the last,
\* with the encoder holding pending bits at that point and bits written.
C14_Witness ==
    /\ pc = "decode"
    /\ ReadsDone >= 3
    /\ PendingAndWritten(EncoderAfter(ReadsDone))
    /\ DecoderAt(EncoderAfter(ReadsDone))

(* ---------------------- properties of the end of input ---------------- *)

\* The bit stream s with two bytes of zeros where it ends.
ZeroExtended(s) ==
    IF s.currentbyte = -1 THEN BitInputStream(<<0, 0>>)
    ELSE [s EXCEPT !.input = @ \o <<0, 0>>]

\* The bit stream decompress holds when read_frequencies has returned.
AfterHeader == read_frequencies(BitInputStream(file)).s

\* C15: a BitInputStream that has reached the end of its file stays there;
\* read_frequencies raises EOFError whenever the file is shorter than the
\* header and no table is built; the decoder (its constructor, shift and
\* underflow) never raises for the end of the file and goes on exactly as
\* over zeros.
C15_EofAsymmetry ==
    /\ (last.op = "read" /\ last.bitin.currentbyte = -1) => bitin = last.bitin
    /\ (Len(file) < HeaderLen /\ pc # "read_frequencies") =>
          /\ pc = "failed"
          /\ err = "EOFError"
          /\ dfreqs.frequencies = <<>>
          /\ dec = NoCoder
          /\ out = <<>>
    /\ Len(file) >= HeaderLen =>
          /\ err # "EOFError"
          /\ pc # "read_frequencies" => dfreqs.err = ""
          /\ last.op = "ArithmeticDecoder" =>
                dec = ArithmeticDecoder(num_state_bits,
                                        ZeroExtended(AfterHeader)).c
          /\ last.op = "read" =>
                /\ dec = Dec_read(last.dec, dfreqs, ZeroExtended(last.bitin)).c
                /\ last.symbol =
                      Dec_read(last.dec, dfreqs, ZeroExtended(last.bitin)).symbol

\* A read that returned and that ran past the end of a file which holds
\* bytes after its header.
C15_Witness ==
    /\ last.op = "read"
    /\ last.err = ""
    /\ Len(file) > HeaderLen
    /\ last.bitin.currentbyte # -1
    /\ bitin.currentbyte = -1
    /\ dec.shift_turns + dec.underflow_turns
          > last.dec.shift_turns + last.dec.underflow_turns

(* ------------------- properties of the decompress loop ---------------- *)

\* What the decompress loop has written is the beginning of the input, and
\* all of it when the loop has ended, which it does on the sentinel.
OutputInOrder ==
    /\ pc \in {"decode", "done"} => IsPrefix(out, inputfile)
    /\ pc = "done" =>
          /\ out = inputfile
          /\ last.op = "read" /\ last.symbol = Sentinel
          /\ ReadsDone = Len(inputfile) + 1

\* A step of the decompress loop is one read: it returns a symbol that is not
\* the sentinel, one byte is written and the loop goes on, or it returns the
\* sentinel, nothing is written and the loop ends.
OneByteAStep ==
    pc = "decode" =>
        /\ last'.op = "read"
        /\ \/ /\ last'.symbol # Sentinel
              /\ out' = Append(out, last'.symbol)
              /\ pc' = "decode"
           \/ /\ last'.symbol = Sentinel
              /\ out' = out
              /\ pc' = "done"

\* Nothing is read or written once the sentinel has been returned.
NothingAfterSentinel == pc # "done"

\* The decompress loop cannot fail on a file compress wrote: when main of
\* decompress.py has begun, the only failure left would be one of its own.
DecodeNeverFails ==
    pc \in {"read_frequencies", "new_decoder", "decode", "done"} => err = ""

\* The reads still to come, the one that returns the sentinel included.
ReadsLeft == Len(inputfile) + 1 - ReadsDone

\* Every turn of the decompress loop takes one from the reads still to come,
\* of which there are never less than none: the loop ends.
ReadsRunOut ==
    pc = "decode" => ReadsLeft' = ReadsLeft - 1 /\ ReadsLeft' >= 0

\* C16: on a file compress wrote for the input B, decompress comes to the
\* sentinel, after len(B) + 1 reads; it writes one byte for every symbol
\* read that is not the sentinel, in the order read, none for the sentinel,
\* and reads and writes nothing after it. (Stated on the steps: no turn of
\* the loop fails, every turn is one read and brings the loop nearer its
\* end, and the end is the sentinel.)
C16_DecodeTerminates ==
    /\ [](OutputInOrder /\ DecodeNeverFails)
    /\ [][OneByteAStep /\ ReadsRunOut]_vars
    /\ [][NothingAfterSentinel]_vars

\* decompress at its end on an input of two different bytes or more.
C16_Witness ==
    /\ pc = "done"
    /\ last.op = "read" /\ last.symbol = Sentinel
    /\ Len(out) >= 2
    /\ out[1] # out[2]

(* ---------------------- properties of update's loops ------------------ *)

\* The turns the two while loops of update took between the coder before and
\* the coder after.
ShiftTurns(before, after) == after.shift_turns - before.shift_turns

UnderflowTurns(before, after) == after.underflow_turns - before.underflow_turns

\* Neither loop took more turns than the state has bits.
TurnsBounded(before, after) ==
    /\ ShiftTurns(before, after) \in 0..before.num_state_bits
    /\ UnderflowTurns(before, after) \in 0..before.num_state_bits

\* The bits a BitInputStream over the bytes f has taken from them when it is s.
BitsTaken(f, s) == ByteBits * (Len(f) - Len(s.input)) - s.numbitsremaining

\* The two loops of update from the coder c with low and high any interval
\* update can have set, c's stream attached as field.
LoopsFrom(c, field, stream, lo, hi) ==
    underflow_loop(shift_loop(
        attach([c EXCEPT !.low = lo, !.high = hi], field, stream)))

\* From every interval the loops end within num_state_bits turns each.
LoopsEndFrom(c, field, stream) ==
    \A lo \in 0..c.state_mask : \A hi \in lo..c.state_mask :
        TurnsBounded(c, LoopsFrom(c, field, stream, lo, hi))

\* C17: update comes to its end. In every write and every read the first
\* while loop and the second take at most num_state_bits turns each; a write
\* puts out one bit for every turn of the first loop and one, then or later,
\* for every turn of the second; a read asks for one bit a turn, and takes no
\* more than that from the file. The loops end as soon from any low and high
\* (tried on the new encoders, and on the new decoders over the empty file:
\* the tests of the loops read low and high only).
C17_UpdateTerminates ==
    /\ last.op = "write" =>
          /\ TurnsBounded(last.enc, enc)
          /\ NumBitsWritten(bitout) - NumBitsWritten(last.bitout)
                = ShiftTurns(last.enc, enc)
                  + (last.enc.num_underflow + UnderflowTurns(last.enc, enc)
                     - enc.num_underflow)
          /\ last.err # "" =>
                ShiftTurns(last.enc, enc) = 0 /\ UnderflowTurns(last.enc, enc) = 0
    /\ last.op = "read" =>
          /\ TurnsBounded(last.dec, dec)
          /\ BitsTaken(file, bitin) - BitsTaken(file, last.bitin)
                <= ShiftTurns(last.dec, dec) + UnderflowTurns(last.dec, dec)
          /\ last.err # "" =>
                ShiftTurns(last.dec, dec) = 0 /\ UnderflowTurns(last.dec, dec) = 0
    /\ pc = "api_encoder" /\ calls = 0 => LoopsEndFrom(enc, "output", bitout)
    /\ pc = "api_decoder" /\ calls = 0 /\ file = <<>> =>
          LoopsEndFrom(dec, "input", bitin)

\* A write in which the first loop took as many turns as the state has bits,
\* the state having more than one, and a read in which both loops took turns.
C17_Witness ==
    \/ /\ last.op = "write" /\ last.err = ""
       /\ num_state_bits > 1
       /\ ShiftTurns(last.enc, enc) = num_state_bits
    \/ /\ last.op = "read" /\ last.err = ""
       /\ ShiftTurns(last.dec, dec) > 0
       /\ UnderflowTurns(last.dec, dec) > 0

(* ------------------ the table during a coding session ----------------- *)

\* get_low and get_high give the same on the tables t and u, for every symbol.
SameQueries(t, u) ==
    \A symbol \in 0..(get_symbol_limit(t) - 1) :
        /\ get_low(u, symbol).err = get_low(t, symbol).err
        /\ get_low(u, symbol).val = get_low(t, symbol).val
        /\ get_high(u, symbol).err = get_high(t, symbol).err
        /\ get_high(u, symbol).val = get_high(t, symbol).val

\* The table u is the table t, but for the cumulative list, which may have
\* been built.
TableFrame(t, u) ==
    /\ u.frequencies = t.frequencies
    /\ get_symbol_limit(u) = get_symbol_limit(t)
    /\ get_total(u) = get_total(t)
    /\ \/ u.cumulative = t.cumulative
       \/ /\ t.cumulative = None
          /\ u.cumulative = <<0>> \o running_sums(t.frequencies, 0)
    /\ SameQueries(t, u)

\* C19: a write and a read, whether they return or raise, leave the
\* frequencies, the symbol limit and the total of the table as they were;
\* only the cumulative list may be built, and get_low and get_high give after
\* the call what they gave before it.
C19_ModelFrame ==
    [][TableFrame(freqs, freqs') /\ TableFrame(dfreqs, dfreqs')]_vars

\* A first write or read that raised after it had built the cumulative list.
C19_Witness ==
    /\ calls = 1
    /\ last.op \in {"write", "read"}
    /\ last.err # ""
    /\ (IF last.op = "write" THEN freqs ELSE dfreqs).cumulative # None

(* -------------------- properties of shift and underflow --------------- *)

\* Bit j of x, bit 0 the lowest.
BitAt(x, j) == shr(x, j) % 2

\* n copies of the bit b.
Copies(b, n) == [i \in 1..n |-> b]

\* The encoder with its stream, as shift and underflow see it.
EncoderWithStream == attach(enc, "output", bitout)

\* low as the last write set it before its loops, from the table's counts.
WriteLow ==
    last.enc.low
    + (LowOf(freqs, last.symbol) * (last.enc.high - last.enc.low + 1))
      \div freqs.total

\* What turns turns of the first loop write, low and pending being low and
\* num_underflow when the loop begins: the top bit of low and pending copies
\* of its complement, then the bits of low below the top one.
Emitted(low, pending, turns) ==
    IF turns = 0 THEN <<>>
    ELSE <<BitAt(low, num_state_bits - 1)>>
         \o Copies(1 - BitAt(low, num_state_bits - 1), pending)
         \o [i \in 1..(turns - 1) |-> BitAt(low, num_state_bits - 1 - i)]

\* underflow adds one to num_underflow and does nothing else.
UnderflowCounts(c) ==
    Enc_underflow(c) = [c EXCEPT !.num_underflow = c.num_underflow + 1]

\* shift writes the top bit of low, writes num_underflow copies of its
\* complement after it and leaves num_underflow 0, and nothing else changed.
ShiftFlushes(c) ==
    /\ top_bit(c) \in {0, 1}
    /\ Enc_shift(c).err = ""
    /\ BitsWritten(Enc_shift(c).output)
          = BitsWritten(c.output) \o <<top_bit(c)>>
            \o Copies(1 - top_bit(c), c.num_underflow)
    /\ Enc_shift(c).num_underflow = 0
    /\ [Enc_shift(c) EXCEPT !.output = c.output, !.num_underflow = c.num_underflow]
          = c

\* C20: num_underflow is never negative; underflow adds exactly one to it and
\* writes nothing; the bit of shift is 0 or 1, so that write of the bit
\* stream never raises "Argument must be 0 or 1"; shift writes the bit, then
\* num_underflow copies of the other bit, and leaves num_underflow 0. Over a
\* whole write: the bits written are those of the turns of the first loop,
\* the pending ones after the first, and num_underflow ends as the turns of
\* the second loop, added to what was pending if the first took no turn.
C20_EncoderHooks ==
    /\ err # "ValueError: Argument must be 0 or 1"
    /\ bitout.err = ""
    /\ enc.kind = "encoder" =>
          /\ enc.num_underflow >= 0
          /\ UnderflowCounts(EncoderWithStream)
          /\ pc = "api_encoder" => ShiftFlushes(EncoderWithStream)
    /\ Returned("write") =>
          /\ BitsWritten(bitout)
                = BitsWritten(last.bitout)
                  \o Emitted(WriteLow, last.enc.num_underflow,
                             ShiftTurns(last.enc, enc))
          /\ enc.num_underflow
                = UnderflowTurns(last.enc, enc)
                  + (IF ShiftTurns(last.enc, enc) = 0
                     THEN last.enc.num_underflow ELSE 0)

\* A write that found underflow bits pending and wrote them out in its first
\* loop, and left others pending in its second.
C20_Witness ==
    /\ Returned("write")
    /\ last.enc.num_underflow > 0
    /\ ShiftTurns(last.enc, enc) > 0
    /\ enc.num_underflow > 0

(* ------------------- the state of a frequency table ------------------- *)

\* The list of the sums of the first 0, 1, ... counts.
PrefixSums(counts) ==
    [i \in 1..(Len(counts) + 1) |-> sum(SubSeq(counts, 1, i - 1))]

\* No count of the table is negative, total is their sum, and the cumulative
\* list, when there is one, is the list of their prefix sums.
TableWellFormed ==
    /\ \A i \in 1..Len(freqs.frequencies) : freqs.frequencies[i] >= 0
    /\ freqs.total = sum(freqs.frequencies)
    /\ freqs.cumulative # None => freqs.cumulative = PrefixSums(freqs.frequencies)

\* Some count of the table is positive.
SomeCountPositive ==
    \E i \in 1..Len(freqs.frequencies) : freqs.frequencies[i] > 0

\* A call that raises leaves frequencies, total and cumulative as they were,
\* and what it raises is one of the two exceptions of the table.
FailedCallChangesNothing ==
    err' # "" =>
        /\ err' \in {"ValueError: Symbol out of range",
                     "ValueError: Negative frequency"}
        /\ freqs'.frequencies = freqs.frequencies
        /\ freqs'.total = freqs.total
        /\ freqs'.cumulative = freqs.cumulative

\* C18, as stated: in every state of a table, after construction and after
\* any calls of get, set, increment, get_low and get_high, failing ones
\* included, which change nothing, every count is >= 0, total is the sum of
\* the counts, at least one count is positive, and the cumulative list, when
\* present, is the prefix sums of the counts.
C18_TableInvariant ==
    /\ [](pc = "table" => TableWellFormed /\ SomeCountPositive)
    /\ [][FailedCallChangesNothing]_vars

\* C18, amended: as stated, but the counts may all be zero, with total 0:
\* the constructor and set accept that.
C18_TableInvariantZeroAllowed ==
    /\ [](pc = "table" => TableWellFormed)
    /\ [][FailedCallChangesNothing]_vars

\* A table whose counts a set has made all zero, with its cumulative list
\* built since, after a call that raised.
C18_Witness ==
    /\ pc = "table"
    /\ calls >= 1
    /\ last.err # ""
    /\ freqs.cumulative # None
    /\ ~SomeCountPositive

====
